---------------------------- MODULE Spec2Model ----------------------------
(***************************************************************************)
(* HKDF (RFC 5869) as implemented by src/hkdf/hkdf.go: Extract, Expand,    *)
(* New and the streaming Read of the hkdf struct.                          *)
(*                                                                         *)
(* Bytes are naturals in 0..255.  A Go slice is a window [lo, hi) on a     *)
(* backing array; f.prev and f.buf are windows on the same array f.mem,    *)
(* because Read assigns f.buf = f.prev and Sum(f.prev[:0]) reuses the      *)
(* array of f.prev.  The hash is an injected capability: it is identified  *)
(* here by its output size and computed by a small deterministic digest.   *)
(***************************************************************************)
EXTENDS Integers, Sequences, FiniteSets, TLC

(* ---------------- bounds of the model ---------------- *)

\* Largest hash output size explored (hash sizes are 0..MaxSize).
MaxSize == 2

\* Largest "small" request length; the limit-sized requests are added below.
MaxRead == 2

\* Block size of the modelled hash (keys are zero-padded to it by HMAC).
BlockSize == 4

(* ---------------- program constants ---------------- *)

\* The last counter byte / the number of blocks of RFC 5869 (hkdf.go:49).
MaxBlocks == 255

\* Number of values of a Go byte (counter byte, hkdf.go:40).
ByteMod == 256

(* ---------------- helpers ---------------- *)

Min(a, b) == IF a < b THEN a ELSE b

Zeros(n) == [i \in 1..n |-> 0]

\* An optional byte-slice argument: Go's nil slice, or a slice holding b.
Nil == [nil |-> TRUE, bytes |-> <<>>]

Bytes(b) == [nil |-> FALSE, bytes |-> b]

\* A window [lo, hi) on the backing array; the nil slice is the empty window.
NilSlice == [lo |-> 0, hi |-> 0]

SliceLen(s) == s.hi - s.lo

\* The bytes a window shows on the array mem.
SliceOf(mem, s) == SubSeq(mem, s.lo + 1, s.hi)

(* ---------------- the injected hash and crypto/hmac ---------------- *)

Hashes == 0..MaxSize

\* hash().Size()
Size(h) == h

RECURSIVE Fold(_, _, _)
Fold(acc, data, i) ==
    IF i > Len(data) THEN acc
    ELSE Fold((acc * 31 + data[i] + 1) % 65521, data, i + 1)

\* h.Write(data); h.Sum(nil): Size(h) bytes, a deterministic function of data.
HashSum(h, data) ==
    CHOOSE sum \in
      {[j \in 1..Size(h) |-> ((acc \div j) + 11 * j) % ByteMod] :
          acc \in {Fold(17, d, 1) : d \in {data}}} : TRUE

\* hmac.New: a key longer than the block is hashed, then zero-padded to the
\* block; the inner and outer pads are derived from the padded key.
KeyBlock(h, key) ==
    LET k == IF Len(key) > BlockSize THEN HashSum(h, key) ELSE key
    IN  [i \in 1..BlockSize |-> IF i <= Len(k) THEN k[i] ELSE 0]

HmacNew(h, key) ==
    LET kb == KeyBlock(h, key)
    IN  [hash |-> h,
         ipad |-> [i \in 1..BlockSize |-> (kb[i] + 54) % ByteMod],
         opad |-> [i \in 1..BlockSize |-> (kb[i] + 92) % ByteMod],
         msg  |-> <<>>]

HmacReset(e) == [e EXCEPT !.msg = <<>>]

HmacWrite(e, data) == [e EXCEPT !.msg = e.msg \o data]

\* The digest appended by Sum; Sum does not change the hmac state.
HmacSum(e) == HashSum(e.hash, e.opad \o HashSum(e.hash, e.ipad \o e.msg))


(* ---------------- Extract, Expand, New ---------------- *)

\* A faulty variant of Extract: the absent salt replaced by the digest of nothing
\* (hash().Sum(nil)) in place of the zero bytes.
ExtractDigestSalt(h, secret, salt) ==
    LET key == IF salt.nil THEN HashSum(h, <<>>) ELSE salt.bytes
        extractor == HmacWrite(HmacNew(h, key), secret)
    IN  HmacSum(extractor)

\* func Extract(hash, secret, salt): salt is an optional slice.
Extract(h, secret, salt) ==
    LET key == IF salt.nil THEN Zeros(Size(h)) ELSE salt.bytes
        extractor == HmacWrite(HmacNew(h, key), secret)
    IN  HmacSum(extractor)

\* func Expand(hash, pseudorandomKey, info): &hkdf{expander, size, info, 1, nil, nil}
Expand(h, pseudorandomKey, info) ==
    LET expander == HmacNew(h, pseudorandomKey)
    IN  [expander |-> expander,
         size     |-> Size(expander.hash),
         info     |-> info,
         counter  |-> 1,
         mem      |-> <<>>,
         prev     |-> NilSlice,
         buf      |-> NilSlice]

\* A faulty variant of New: the secret and the salt handed to Extract in each
\* other's place.
NewSaltForSecret(h, secret, salt, info) ==
    LET prk == Extract(h, salt.bytes, Bytes(secret))
    IN  Expand(h, prk, info)

\* func New(hash, secret, salt, info)
New(h, secret, salt, info) ==
    LET prk == Extract(h, secret, salt)
    IN  Expand(h, prk, info)

(* ---------------- hkdf.Read ---------------- *)

\* A faulty variant of Remains: the blocks left computed in int, so that the counter
\* byte that has wrapped to 0 counts for 256 blocks left.
RemainsNoWrap(f) ==
    SliceLen(f.buf) + (MaxBlocks - f.counter + 1) * f.size

\* A faulty variant of Remains: the + 1 forgotten.
RemainsOffByOne(f) ==
    SliceLen(f.buf) + ((MaxBlocks - f.counter) % ByteMod) * f.size

\* A faulty variant of Remains: the pending bytes left out of the count.
RemainsNoBuf(f) ==
    ((((MaxBlocks - f.counter) % ByteMod) + 1) % ByteMod) * f.size

\* remains := len(f.buf) + int(255-f.counter+1)*f.size, the parenthesis in
\* byte arithmetic (f.counter is a byte, 255 and 1 are converted to it).
Remains(f) ==
    SliceLen(f.buf)
        + ((((MaxBlocks - f.counter) % ByteMod) + 1) % ByteMod) * f.size

\* A faulty variant of LimitExceeded: <= for <.
LimitExceededOrEqual(f, need) == Remains(f) <= need

\* Line 50: if remains < need { return 0, errors.New(...) }
LimitExceeded(f, need) == Remains(f) < need

\* n = copy(p[pos:], src): the count, and p after the copy.
Copy(p, pos, src) ==
    LET c == Min(Len(p) - pos, Len(src))
    IN  [n |-> c,
         p |-> SubSeq(p, 1, pos) \o SubSeq(src, 1, c)
                 \o SubSeq(p, pos + c + 1, Len(p))]

\* A faulty variant of IncCounter: the counter kept out of 0 by stopping at 255.
IncCounterSaturating(c) == IF c + 1 >= ByteMod THEN c ELSE c + 1

\* f.counter++ on a byte.
IncCounter(c) == (c + 1) % ByteMod

\* A faulty variant of GenerateBlock: the previous block not written to the HMAC.
GenerateBlockNoPrev(f) ==
    LET e == HmacWrite(HmacWrite(HmacReset(f.expander), f.info), <<f.counter>>)
        d == HmacSum(e)
    IN  [f EXCEPT !.expander = e,
                  !.mem = d \o SubSeq(f.mem, Len(d) + 1, Len(f.mem)),
                  !.prev = [lo |-> 0, hi |-> Len(d)]]

\* A faulty variant of GenerateBlock: the counter byte appended to f.info itself
\* (f.info = append(f.info, f.counter)) and the two written at once.
GenerateBlockInfoAppended(f) ==
    LET info == f.info \o <<f.counter>>
        e == HmacWrite(HmacWrite(HmacReset(f.expander),
                 SliceOf(f.mem, f.prev)), info)
        d == HmacSum(e)
    IN  [f EXCEPT !.expander = e,
                  !.info = info,
                  !.mem = d \o SubSeq(f.mem, Len(d) + 1, Len(f.mem)),
                  !.prev = [lo |-> 0, hi |-> Len(d)]]

\* Lines 59-63: Reset, Write(prev), Write(info), Write([]byte{counter}),
\* f.prev = Sum(f.prev[:0]): the digest overwrites the array of f.prev from
\* its first byte (a fresh array when f.prev is nil).
GenerateBlock(f) ==
    LET e == HmacWrite(HmacWrite(HmacWrite(HmacReset(f.expander),
                 SliceOf(f.mem, f.prev)), f.info), <<f.counter>>)
        d == HmacSum(e)
    IN  [f EXCEPT !.expander = e,
                  !.mem = d \o SubSeq(f.mem, Len(d) + 1, Len(f.mem)),
                  !.prev = [lo |-> 0, hi |-> Len(d)]]

\* A faulty variant of SaveLeftover: the leftover dropped (f.buf = f.buf[len(f.buf):]).
SaveLeftoverDropped(f, n) ==
    [f EXCEPT !.buf = [lo |-> f.buf.hi, hi |-> f.buf.hi]]

\* A faulty variant of SaveLeftover: line 72 lost, f.buf left to show what it showed.
SaveLeftoverNotAdvanced(f, n) == [f EXCEPT !.buf = f.buf]

\* Line 72: f.buf = f.buf[n:]
SaveLeftover(f, n) == [f EXCEPT !.buf = [lo |-> f.buf.lo + n, hi |-> f.buf.hi]]

\* The state of the loop of lines 58-70: pos is how far p has been re-sliced
\* (p = p[n:]), n the last copy count, fed the counter bytes written to the
\* HMAC by this call so far.
LoopCond(s) == Len(s.p) - s.pos > 0

\* A faulty variant of LoopBody: the counter incremented before the block is
\* generated (line 64 ahead of lines 59-63).
LoopBodyIncrementFirst(s) ==
    LET f0 == [s.f EXCEPT !.counter = IncCounter(s.f.counter)]
        f1 == GenerateBlock(f0)
        f3 == [f1 EXCEPT !.buf = f1.prev]
        c  == Copy(s.p, s.pos, SliceOf(f3.mem, f3.buf))
    IN  [f |-> f3, p |-> c.p, pos |-> s.pos + c.n, n |-> c.n,
         fed |-> Append(s.fed, f0.counter)]

\* One iteration: lines 59-69.
LoopBody(s) ==
    LET f1 == GenerateBlock(s.f)
        f2 == [f1 EXCEPT !.counter = IncCounter(f1.counter)]
        f3 == [f2 EXCEPT !.buf = f2.prev]
        c  == Copy(s.p, s.pos, SliceOf(f3.mem, f3.buf))
    IN  [f |-> f3, p |-> c.p, pos |-> s.pos + c.n, n |-> c.n,
         fed |-> Append(s.fed, s.f.counter)]

\* At most k iterations of the loop, stopping when its condition fails
\* (evaluated by halving, so that the evaluation stays shallow).
RECURSIVE RunLoop(_, _)
RunLoop(s, k) ==
    IF ~LoopCond(s) THEN s
    ELSE IF k <= 1 THEN LoopBody(s)
    ELSE CHOOSE r \in {RunLoop(h, k - (k \div 2)) :
                            h \in {RunLoop(s, k \div 2)}} : TRUE

\* for len(p) > 0 { ... }: iterate until the condition fails.
RECURSIVE FillLoop(_)
FillLoop(s) ==
    IF LoopCond(s)
    THEN CHOOSE r \in {FillLoop(h) : h \in {RunLoop(s, ByteMod)}} : TRUE
    ELSE s

\* A faulty variant of ReadBytes: when the Read leaves no pending byte the next
\* block is generated at once, ahead of any need for it.
ReadBytesEager(f, p) ==
    LET c == Copy(p, 0, SliceOf(f.mem, f.buf))
    IN  CHOOSE x \in
          UNION {{IF SliceLen(g.buf) = 0
                  THEN LET b == LoopBody([r EXCEPT !.f = g])
                       IN  [f |-> b.f, p |-> r.p, n |-> Len(p), err |-> FALSE,
                            fed |-> b.fed]
                  ELSE [f |-> g, p |-> r.p, n |-> Len(p), err |-> FALSE,
                        fed |-> r.fed] :
                    g \in {SaveLeftover(r.f, r.n)}} :
              r \in {FillLoop([f |-> f, p |-> c.p, pos |-> c.n, n |-> c.n,
                               fed |-> <<>>])}} : TRUE

\* A faulty variant of ReadBytes: p re-sliced past the pending bytes without their
\* being copied into it (line 54 lost, line 55 kept).
ReadBytesNoCopy(f, p) ==
    LET c == [n |-> Min(Len(p), SliceLen(f.buf)), p |-> p]
    IN  CHOOSE x \in
          {[f |-> SaveLeftover(r.f, r.n), p |-> r.p, n |-> Len(p),
            err |-> FALSE, fed |-> r.fed] :
              r \in {FillLoop([f |-> f, p |-> c.p, pos |-> c.n, n |-> c.n,
                               fed |-> <<>>])}} : TRUE

\* Lines 53-74: the Read that passed the limit check.
ReadBytes(f, p) ==
    LET c == Copy(p, 0, SliceOf(f.mem, f.buf))
    IN  CHOOSE x \in
          {[f |-> SaveLeftover(r.f, r.n), p |-> r.p, n |-> Len(p),
            err |-> FALSE, fed |-> r.fed] :
              r \in {FillLoop([f |-> f, p |-> c.p, pos |-> c.n, n |-> c.n,
                               fed |-> <<>>])}} : TRUE

\* A faulty variant of Read: the leftover copied into p before the limit is checked.
ReadCopyThenCheck(f, p) ==
    IF LimitExceeded(f, Len(p))
    THEN [f |-> f, p |-> Copy(p, 0, SliceOf(f.mem, f.buf)).p, n |-> 0,
          err |-> TRUE, fed |-> <<>>]
    ELSE ReadBytes(f, p)

\* A faulty variant of Read: at most one block generated per call, the count of the
\* bytes copied returned (a short read).
ReadShort(f, p) ==
    IF LimitExceeded(f, Len(p))
    THEN [f |-> f, p |-> p, n |-> 0, err |-> TRUE, fed |-> <<>>]
    ELSE LET c == Copy(p, 0, SliceOf(f.mem, f.buf))
         IN  CHOOSE x \in
               {[f |-> SaveLeftover(r.f, r.n), p |-> r.p, n |-> r.pos,
                 err |-> FALSE, fed |-> r.fed] :
                   r \in {RunLoop([f |-> f, p |-> c.p, pos |-> c.n, n |-> c.n,
                                   fed |-> <<>>], 1)}} : TRUE

\* func (f *hkdf) Read(p []byte) (int, error): the hkdf after the call, the
\* caller's buffer after the call, the returned count, whether an error was
\* returned, and the counter bytes written to the HMAC.
Read(f, p) ==
    IF LimitExceeded(f, Len(p))
    THEN [f |-> f, p |-> p, n |-> 0, err |-> TRUE, fed |-> <<>>]
    ELSE ReadBytes(f, p)

(* ---------------- inputs ---------------- *)

PRKs == {<<1, 2>>}

Infos == {<<>>, <<7>>}

Secrets == {<<11>>}

\* The info given to New.
NewInfos == {<<7>>}

Salts == {Nil, Bytes(<<5>>)}

\* What the caller's buffer holds before a Read.
Fills == {170}

\* Request lengths for an Expander of hash size sz: the small ones, the
\* whole stream and one byte more.
ReadLens(sz) == (0..MaxRead) \cup {MaxBlocks * sz, MaxBlocks * sz + 1}

\* The caller's buffer: make([]byte, n), every byte holding fill.
Buffer(n, fill) == [i \in 1..n |-> fill]

(* ---------------- the state machine ---------------- *)

VARIABLES
    f,        \* the hkdf struct behind the io.Reader
    how,      \* how f was constructed: by Expand or by New, and from what
    emitted,  \* every byte returned by the successful Reads so far, in order
    gen,      \* the counter byte fed to the HMAC for each block generated
    last,     \* the last Read call: request, buffer before and after, result
    ext,      \* a call of Extract: its arguments and, once made, its result
    split,    \* the Reads counted, and one Read of a second, fresh Expander
    rd,       \* two callers inside Read at once: their place and locals
    start,    \* the hkdf struct when the two callers started
    overlap,  \* whether a caller has run while the other was inside Read
    twin      \* a second Expander, and the Reads made on the two of them

vars == <<f, how, emitted, gen, last, ext, split, rd, start, overlap, twin>>

Readers == {1, 2}

NoCall ==
    [op |-> "none", need |-> 0, n |-> 0, err |-> FALSE,
     p0 |-> <<>>, p |-> <<>>, pre |-> Expand(0, <<>>, <<>>), fed |-> <<>>]

NoExtract ==
    [done |-> FALSE, hash |-> 0, secret |-> <<>>, salt |-> Nil, prk |-> <<>>]

NoSplit == [reads |-> 0, done |-> FALSE, err |-> FALSE, p |-> <<>>]

Idle ==
    [pc |-> "idle", need |-> 0, p0 |-> <<>>, p |-> <<>>, pos |-> 0, n |-> 0,
     ret |-> 0, err |-> FALSE, iters |-> 0]

\* No second Expander built yet.
NoTwin ==
    [built |-> FALSE, via |-> "none", f |-> Expand(0, <<>>, <<>>),
     first |-> Expand(0, <<>>, <<>>), log |-> <<>>, res |-> <<>>]

\* The Reader returned by Expand(h, prk, info).
InitExpand ==
    \E h \in Hashes, prk \in PRKs, info \in Infos :
        /\ f = Expand(h, prk, info)
        /\ how = [op |-> "Expand", hash |-> h, prk |-> prk, info |-> info,
                  secret |-> <<>>, salt |-> Nil]

\* The Reader returned by New(h, secret, salt, info).
InitNew ==
    \E h \in Hashes, secret \in Secrets, salt \in Salts, info \in NewInfos :
        /\ f = New(h, secret, salt, info)
        /\ how = [op |-> "New", hash |-> h, prk |-> Extract(h, secret, salt),
                  info |-> info, secret |-> secret, salt |-> salt]

\* Nothing read yet, no other call under way.
InitReads ==
    /\ emitted = <<>>
    /\ gen = <<>>
    /\ last = NoCall
    /\ split = NoSplit
    /\ rd = [i \in Readers |-> Idle]
    /\ start = f
    /\ overlap = FALSE
    /\ twin = NoTwin

InitRest == InitReads /\ ext = NoExtract

Init == (InitExpand \/ InitNew) /\ InitRest

\* One call of Read with a buffer of n bytes, run from entry to return.
ReadCall(n, fill) ==
    \E p0 \in {Buffer(n, fill)} :
      \E r \in {Read(f, p0)} :
        /\ f' = r.f
        /\ emitted' = IF r.err THEN emitted ELSE emitted \o SubSeq(r.p, 1, r.n)
        /\ gen' = gen \o r.fed
        /\ last' = [op |-> "Read", need |-> n, n |-> r.n, err |-> r.err,
                    p0 |-> p0, p |-> r.p, pre |-> f, fed |-> r.fed]

DoRead(n, fill) ==
    /\ ReadCall(n, fill)
    /\ UNCHANGED <<how, ext, split, rd, start, overlap, twin>>

Next == \E n \in ReadLens(f.size), fill \in Fills : DoRead(n, fill)

\* One Expander used by one caller at a time (Reads externally serialized).
Spec == Init /\ [][Next]_vars

(* ---------------- Extract as a function of its arguments ---------------- *)

ExtSecrets == {<<>>, <<11>>, <<0, 255>>}

ExtSalts ==
    {Nil, Bytes(<<>>), Bytes(<<0>>), Bytes(<<5>>), Bytes(<<0, 0, 0>>),
     Bytes(<<1, 2, 3, 4, 5, 6>>)}

InitExtract ==
    /\ f = Expand(0, <<>>, <<>>)
    /\ how = [op |-> "none", hash |-> 0, prk |-> <<>>, info |-> <<>>,
              secret |-> <<>>, salt |-> Nil]
    /\ InitReads
    /\ \E h \in Hashes, secret \in ExtSecrets, salt \in ExtSalts :
         ext = [done |-> FALSE, hash |-> h, secret |-> secret, salt |-> salt,
                prk |-> <<>>]

\* prk := Extract(hash, secret, salt)
DoExtract ==
    /\ ~ext.done
    /\ ext' = [ext EXCEPT !.done = TRUE,
                          !.prk = Extract(ext.hash, ext.secret, ext.salt)]
    /\ UNCHANGED <<f, how, emitted, gen, last, split, rd, start, overlap, twin>>

SpecExtract == InitExtract /\ [][DoExtract]_vars

(* ---------------- one stream read in pieces and in one piece ---------------- *)

\* The most Reads made on the Expander before the comparison.
MaxSplit == 2

\* Request lengths: the small ones, and those that end near the limit.
SplitLens(sz) ==
    {n \in (0..MaxRead) \cup {MaxBlocks * sz - d : d \in 0..MaxRead} : n >= 0}

SplitRead(n, fill) ==
    /\ ~split.done
    /\ split.reads < MaxSplit
    /\ ReadCall(n, fill)
    /\ split' = [split EXCEPT !.reads = @ + 1]
    /\ UNCHANGED <<how, ext, rd, start, overlap, twin>>

\* A second Expander, freshly built by Expand from the same hash, PRK and
\* info, is read once for as many bytes as the first has returned.
SingleRead(fill) ==
    /\ ~split.done
    /\ split.reads >= 1
    /\ \E r \in {Read(Expand(how.hash, how.prk, how.info),
                      Buffer(Len(emitted), fill))} :
         split' = [split EXCEPT !.done = TRUE, !.err = r.err, !.p = r.p]
    /\ UNCHANGED <<f, how, emitted, gen, last, ext, rd, start, overlap, twin>>

NextSplit ==
    \/ \E n \in SplitLens(f.size), fill \in Fills : SplitRead(n, fill)
    \/ \E fill \in Fills : SingleRead(fill)

\* The first Expander is built by Expand.
InitSplit ==
    /\ \E h \in Hashes, prk \in PRKs, info \in Infos :
         /\ f = Expand(h, prk, info)
         /\ how = [op |-> "Expand", hash |-> h, prk |-> prk, info |-> info,
                   secret |-> <<>>, salt |-> Nil]
    /\ InitReads
    /\ ext = NoExtract

SpecSplit == InitSplit /\ [][NextSplit]_vars

(* ---------------- two callers in Read at once ---------------- *)

\* Two goroutines call Read on the same hkdf with no lock.  Each statement
\* group of Read is one step; the steps of the two calls interleave freely.
\* (Go gives a racing program no more than this: every interleaving of the
\* statements is an outcome the build can produce.)

\* Bytes read serially before the two callers start.
WarmLens(sz) == {n \in {0, 1, MaxBlocks * sz - 1} : n >= 0}

\* Request lengths of the two callers.
ConcLens == 1..MaxRead

InitConc ==
    /\ \E h \in Hashes \ {0}, prk \in PRKs, info \in NewInfos :
         /\ how = [op |-> "Expand", hash |-> h, prk |-> prk, info |-> info,
                   secret |-> <<>>, salt |-> Nil]
         /\ \E w \in WarmLens(Size(h)), fill \in Fills :
              \E r \in {Read(Expand(h, prk, info), Buffer(w, fill))} :
                /\ f = r.f
                /\ emitted = SubSeq(r.p, 1, r.n)
                /\ gen = r.fed
    /\ last = NoCall
    /\ ext = NoExtract
    /\ split = NoSplit
    /\ rd = [i \in Readers |-> Idle]
    /\ start = f
    /\ overlap = FALSE
    /\ twin = NoTwin

Other(i) == CHOOSE j \in Readers : j # i

\* Past the limit check and not yet returned.
Inside(r) == r.pc \in {"copybuf", "gen", "inc", "copy", "save"}

\* A step of caller i: its new locals; the other caller is noted if inside.
Moves(i, r) ==
    /\ rd' = [rd EXCEPT ![i] = r]
    /\ overlap' = (overlap \/ Inside(rd[Other(i)]))
    /\ UNCHANGED <<how, emitted, last, ext, split, start, twin>>

\* Line 58: for len(p) > 0
AfterCopy(r) == IF Len(r.p) - r.pos > 0 THEN "gen" ELSE "save"

\* Caller i enters Read with a buffer of n bytes.
Call(i, n, fill) ==
    /\ rd[i].pc = "idle"
    /\ rd' = [rd EXCEPT ![i] = [Idle EXCEPT !.pc = "check", !.need = n,
                                            !.p0 = Buffer(n, fill),
                                            !.p = Buffer(n, fill)]]
    /\ UNCHANGED <<f, how, emitted, gen, last, ext, split, start, overlap, twin>>

\* Lines 48-52: the limit check.
StepCheck(i) ==
    /\ rd[i].pc = "check"
    /\ IF LimitExceeded(f, rd[i].need)
       THEN Moves(i, [rd[i] EXCEPT !.pc = "done", !.ret = 0, !.err = TRUE])
       ELSE Moves(i, [rd[i] EXCEPT !.pc = "copybuf"])
    /\ UNCHANGED <<f, gen>>

\* Lines 54-55: n := copy(p, f.buf); p = p[n:]
StepCopyBuf(i) ==
    /\ rd[i].pc = "copybuf"
    /\ \E c \in {Copy(rd[i].p, 0, SliceOf(f.mem, f.buf))} :
         \E r \in {[rd[i] EXCEPT !.p = c.p, !.pos = c.n, !.n = c.n]} :
           Moves(i, [r EXCEPT !.pc = AfterCopy(r)])
    /\ UNCHANGED <<f, gen>>

\* Lines 59-63: the next block, written over f.prev.
StepGenerate(i) ==
    /\ rd[i].pc = "gen"
    /\ f' = GenerateBlock(f)
    /\ gen' = Append(gen, f.counter)
    /\ Moves(i, [rd[i] EXCEPT !.pc = "inc", !.iters = @ + 1])

\* Line 64: f.counter++
StepIncrement(i) ==
    /\ rd[i].pc = "inc"
    /\ f' = [f EXCEPT !.counter = IncCounter(f.counter)]
    /\ Moves(i, [rd[i] EXCEPT !.pc = "copy"])
    /\ UNCHANGED gen

\* Lines 67-69: f.buf = f.prev; n = copy(p, f.buf); p = p[n:]
StepCopyBlock(i) ==
    /\ rd[i].pc = "copy"
    /\ f' = [f EXCEPT !.buf = f.prev]
    /\ \E c \in {Copy(rd[i].p, rd[i].pos, SliceOf(f.mem, f.prev))} :
         \E r \in {[rd[i] EXCEPT !.p = c.p, !.pos = rd[i].pos + c.n, !.n = c.n]} :
           Moves(i, [r EXCEPT !.pc = AfterCopy(r)])
    /\ UNCHANGED gen

\* Lines 72-74: f.buf = f.buf[n:]; return need, nil.  f.buf[n:] panics
\* (slice bounds out of range) when n exceeds len(f.buf).
StepSave(i) ==
    /\ rd[i].pc = "save"
    /\ IF rd[i].n > SliceLen(f.buf)
       THEN /\ Moves(i, [rd[i] EXCEPT !.pc = "panic"])
            /\ UNCHANGED f
       ELSE /\ f' = SaveLeftover(f, rd[i].n)
            /\ Moves(i, [rd[i] EXCEPT !.pc = "done", !.ret = rd[i].need])
    /\ UNCHANGED gen

NextConc ==
    \E i \in Readers :
        \/ \E n \in ConcLens, fill \in Fills : Call(i, n, fill)
        \/ StepCheck(i)
        \/ StepCopyBuf(i)
        \/ StepGenerate(i)
        \/ StepIncrement(i)
        \/ StepCopyBlock(i)
        \/ StepSave(i)

SpecConc == InitConc /\ [][NextConc]_vars

(* ---------------- one caller, Read taken statement by statement ---------------- *)

\* The most Read calls taken statement by statement.
MaxCalls == 2

\* The Expander of any hash size, the size 0 included, after one Read.
InitSteps ==
    /\ \E h \in Hashes, prk \in PRKs, info \in NewInfos :
         /\ how = [op |-> "Expand", hash |-> h, prk |-> prk, info |-> info,
                   secret |-> <<>>, salt |-> Nil]
         /\ \E w \in WarmLens(Size(h)), fill \in Fills :
              \E r \in {Read(Expand(h, prk, info), Buffer(w, fill))} :
                /\ f = r.f
                /\ emitted = SubSeq(r.p, 1, r.n)
                /\ gen = r.fed
    /\ last = NoCall
    /\ ext = NoExtract
    /\ split = NoSplit
    /\ rd = [i \in Readers |-> Idle]
    /\ start = f
    /\ overlap = FALSE
    /\ twin = NoTwin

\* The caller enters Read with a buffer of n bytes; its calls are counted.
CallAgain(i, n, fill) ==
    /\ rd[i].pc = "idle"
    /\ split.reads < MaxCalls
    /\ rd' = [rd EXCEPT ![i] = [Idle EXCEPT !.pc = "check", !.need = n,
                                            !.p0 = Buffer(n, fill),
                                            !.p = Buffer(n, fill)]]
    /\ split' = [split EXCEPT !.reads = @ + 1]
    /\ UNCHANGED <<f, how, emitted, gen, last, ext, start, overlap, twin>>

\* The caller has its result and is out of Read, free to call again.
Return(i) ==
    /\ rd[i].pc = "done"
    /\ emitted' = IF rd[i].err THEN emitted
                  ELSE emitted \o SubSeq(rd[i].p, 1, rd[i].ret)
    /\ rd' = [rd EXCEPT ![i] = Idle]
    /\ UNCHANGED <<f, how, gen, last, ext, split, start, overlap, twin>>

\* The statements of Read, for the caller inside it.
RunOn(i) ==
    \/ StepCheck(i)
    \/ StepCopyBuf(i)
    \/ StepGenerate(i)
    \/ StepIncrement(i)
    \/ StepCopyBlock(i)
    \/ StepSave(i)

NextSteps ==
    \/ \E n \in ReadLens(f.size), fill \in Fills : CallAgain(1, n, fill)
    \/ StepCheck(1)
    \/ StepCopyBuf(1)
    \/ StepGenerate(1)
    \/ StepIncrement(1)
    \/ StepCopyBlock(1)
    \/ StepSave(1)
    \/ Return(1)

\* Read is straight-line code that nothing suspends: the caller inside it
\* goes on to its next statement.
SpecSteps == InitSteps /\ [][NextSteps]_vars /\ WF_vars(RunOn(1))

(* ---------------- two Expanders built from the same inputs ---------------- *)

\* The most Reads made on each of the two Expanders.
MaxTwin == 2

\* What the buffers handed to the second Expander hold before a Read.
TwinFills == {85}

\* The first Expander is built by Expand or by New; the arguments of New are
\* also kept for a call of Extract.
InitTwin ==
    /\ InitExpand \/ InitNew
    /\ InitReads
    /\ ext = IF how.op = "New"
             THEN [done |-> FALSE, hash |-> how.hash, secret |-> how.secret,
                   salt |-> how.salt, prk |-> <<>>]
             ELSE NoExtract

\* The second Expander is built by the same constructor from the same
\* arguments.
BuildSame ==
    /\ ~twin.built
    /\ \E g \in {IF how.op = "New"
                 THEN New(how.hash, how.secret, how.salt, how.info)
                 ELSE Expand(how.hash, how.prk, how.info)} :
         twin' = [twin EXCEPT !.built = TRUE, !.via = "same", !.f = g,
                              !.first = g]
    /\ UNCHANGED <<f, how, emitted, gen, last, ext, split, rd, start, overlap>>

\* prk := Extract(hash, secret, salt), with the arguments New was given.
TwinExtract ==
    /\ how.op = "New"
    /\ ~twin.built
    /\ DoExtract

\* The second Expander is built by Expand from the PRK Extract returned.
BuildComposed ==
    /\ ~twin.built
    /\ how.op = "New"
    /\ ext.done
    /\ \E g \in {Expand(ext.hash, ext.prk, how.info)} :
         twin' = [twin EXCEPT !.built = TRUE, !.via = "composed", !.f = g,
                              !.first = g]
    /\ UNCHANGED <<f, how, emitted, gen, last, ext, split, rd, start, overlap>>

\* What a Read call was asked and what it returned.
Outcome(need, r) == [need |-> need, n |-> r.n, err |-> r.err, p |-> r.p]

\* A Read on the first Expander.
FirstRead(n, fill) ==
    /\ Len(twin.log) < MaxTwin
    /\ ReadCall(n, fill)
    /\ twin' = [twin EXCEPT !.log = Append(@, Outcome(n, last'))]
    /\ UNCHANGED <<how, ext, split, rd, start, overlap>>

\* The second Expander is read for the next length the first was read for,
\* into a buffer of its own.
TwinRead(fill) ==
    /\ twin.built
    /\ Len(twin.res) < Len(twin.log)
    /\ \E need \in {twin.log[Len(twin.res) + 1].need} :
         \E r \in {Read(twin.f, Buffer(need, fill))} :
           twin' = [twin EXCEPT !.f = r.f, !.res = Append(@, Outcome(need, r))]
    /\ UNCHANGED <<f, how, emitted, gen, last, ext, split, rd, start, overlap>>

NextTwin ==
    \/ BuildSame
    \/ TwinExtract
    \/ BuildComposed
    \/ \E n \in ReadLens(f.size), fill \in Fills : FirstRead(n, fill)
    \/ \E fill \in TwinFills : TwinRead(fill)

SpecTwin == InitTwin /\ [][NextTwin]_vars

(* ---------------- reference: RFC 5869, section 2.3 ---------------- *)

\* T(i) = HMAC-Hash(PRK, T(i-1) | info | i)
RFC_T(h, prk, info, tprev, i) ==
    HmacSum(HmacWrite(HmacNew(h, prk), tprev \o info \o <<i>>))

\* T(i) | ... | T(j) given T(i-1), and T(j).
RECURSIVE RFC_Blocks(_, _, _, _, _, _)
RFC_Blocks(h, prk, info, tprev, i, j) ==
    IF i > j THEN [okm |-> <<>>, t |-> tprev]
    ELSE IF i = j
    THEN CHOOSE r \in {[okm |-> t, t |-> t] :
                          t \in {RFC_T(h, prk, info, tprev, i)}} : TRUE
    ELSE CHOOSE r \in
           UNION {{[okm |-> l.okm \o u.okm, t |-> u.t] :
                     u \in {RFC_Blocks(h, prk, info, l.t, ((i + j) \div 2) + 1, j)}} :
                     l \in {RFC_Blocks(h, prk, info, tprev, i, (i + j) \div 2)}} : TRUE

\* Every (hash, PRK, info) an Expander of the model is built from.
Configs ==
    {<<h, prk, info>> : h \in Hashes, prk \in PRKs, info \in Infos}
        \cup UNION {{<<h, Extract(h, secret, salt), info>> :
                        secret \in Secrets, salt \in Salts, info \in NewInfos} :
                        h \in Hashes}

\* T(1) | T(2) | ... | T(255) for each of them.
RFC_OKM == [c \in Configs |-> RFC_Blocks(c[1], c[2], c[3], <<>>, 1, 255).okm]

\* The RFC stream of the Expander of this behaviour.
OKM == RFC_OKM[<<how.hash, how.prk, how.info>>]

\* 255 * hash_output_size for the Expander of this behaviour.
LimitBytes == 255 * Size(how.hash)

\* The bytes returned by successful Reads before the last call.
EmittedBefore == Len(emitted) - (IF last.err THEN 0 ELSE last.n)

(* ---------------- claims ---------------- *)

\* C1: after any sequence of Reads, successful or failed, the bytes returned
\* by the successful Reads of one Expander total at most 255 * hash size.
C1_TotalWithinLimit == Len(emitted) <= LimitBytes

\* The whole stream has been returned and a further Read has then failed.
C1_Witness ==
    /\ LimitBytes > 0
    /\ Len(emitted) = LimitBytes
    /\ last.op = "Read" /\ last.err

\* C2: a Read of n bytes after E bytes were returned fails if and only if
\* E + n > 255 * hash size; on a fresh Expander a Read of 255 * size bytes
\* succeeds and a Read of 255 * size + 1 bytes fails.
C2_FailsIffOverLimit ==
    last.op = "Read" =>
        /\ last.err <=> (EmittedBefore + last.need > LimitBytes)
        /\ (EmittedBefore = 0 /\ last.need = LimitBytes) => ~last.err
        /\ (EmittedBefore = 0 /\ last.need = LimitBytes + 1) => last.err

\* A Read of 255 * size + 1 bytes on a fresh Expander has failed.
C2_Witness ==
    /\ LimitBytes > 0
    /\ last.op = "Read" /\ last.err
    /\ last.need = LimitBytes + 1
    /\ last.pre = Expand(how.hash, how.prk, how.info)

\* C3: a Read that fails writes nothing into the caller's buffer, reports 0
\* bytes and leaves the Expander (counter, prev, buf, and all the rest)
\* exactly as it was, so that later Reads cannot tell it was made.
C3_FailedReadChangesNothing ==
    (last.op = "Read" /\ last.err) =>
        /\ last.n = 0
        /\ last.p = last.p0
        /\ f = last.pre

\* A Read has failed while bytes were pending in the buffer.
C3_Witness ==
    /\ last.op = "Read" /\ last.err
    /\ last.need > 0
    /\ SliceLen(last.pre.buf) > 0

\* C5: the bytes returned by all the successful Reads, concatenated, are a
\* prefix of T(1) | T(2) | ... | T(255) of RFC 5869: nothing is skipped,
\* repeated or reordered.
C5_PrefixOfRFCStream == emitted = SubSeq(OKM, 1, Len(emitted))

\* The whole stream has been returned, the last byte out of the buffer.
C5_Witness ==
    /\ Size(how.hash) >= 2
    /\ Len(emitted) = LimitBytes
    /\ last.op = "Read" /\ ~last.err /\ last.need = 1
    /\ SliceLen(last.pre.buf) = 1

\* C6: every Read returns either (len(p), nil) with all len(p) bytes of p
\* written with the next bytes of the stream, or (0, error); never a short
\* count.
C6_AllOrNothing ==
    last.op = "Read" =>
        \/ /\ ~last.err
           /\ last.n = last.need
           /\ Len(last.p) = last.need
           /\ last.p = SubSeq(OKM, EmittedBefore + 1, EmittedBefore + last.need)
        \/ /\ last.err
           /\ last.n = 0

\* A Read has been served partly from the buffer and partly from a new block.
C6_Witness ==
    /\ last.op = "Read" /\ ~last.err
    /\ last.need = 2
    /\ SliceLen(last.pre.buf) = 1

\* C7: a zero-length Read succeeds with 0 bytes and no error in every state,
\* the fresh and the exhausted Expander included, and leaves the Expander as
\* it was.
C7_ZeroLengthRead ==
    (last.op = "Read" /\ last.need = 0) =>
        /\ ~last.err
        /\ last.n = 0
        /\ last.p = <<>>
        /\ f = last.pre

\* A zero-length Read has been made on an exhausted Expander.
C7_Witness ==
    /\ LimitBytes > 0
    /\ Len(emitted) = LimitBytes
    /\ Remains(last.pre) = 0
    /\ last.op = "Read" /\ last.need = 0 /\ ~last.err

\* Whether a Read of n bytes fails in the Expander state g: Read returns its
\* error exactly when the test of line 50 holds (C8 checks this of every call
\* made).
ReadFails(g, n) == LimitExceeded(g, n)

\* C8: a Read of n bytes that fails keeps failing: after any step, a Read of
\* n or more bytes that would have failed before it still fails, and the
\* number of bytes still derivable has not gone up.
C8_FailureIsPermanent ==
    [][/\ Remains(f') <= Remains(f)
       /\ (last' # last) => (last'.err <=> ReadFails(f, last'.need))
       /\ \A n \in ReadLens(f.size) :
            ReadFails(f, n) =>
                \A m \in ReadLens(f.size) : m >= n => ReadFails(f', m)]_vars

\* A small Read has failed after Reads that succeeded.
C8_Witness ==
    /\ last.op = "Read" /\ last.err
    /\ last.need > 0 /\ last.need <= MaxRead
    /\ Len(emitted) > 0

\* C4: the bytes returned by Read(a) then Read(b) (and by any longer run of
\* successful Reads) on one Expander, concatenated, are the bytes returned
\* by a single Read of their total length on a fresh Expander built from
\* the same hash, PRK and info.
C4_StreamingEquivalence ==
    split.done => (~split.err /\ split.p = emitted)

\* Read(255 * size - 1) then Read(1), the second out of the pending buffer,
\* compared with one Read(255 * size).
C4_Witness ==
    /\ split.done /\ split.reads = 2
    /\ Len(emitted) = LimitBytes
    /\ EmittedBefore = LimitBytes - 1
    /\ ~last.err /\ last.need = 1
    /\ SliceLen(last.pre.buf) = 1

\* C10: Extract with an absent (nil) salt returns the PRK that Extract
\* returns for the same hash and secret and a salt of hash size zero bytes.
C10_AbsentSaltIsZeroSalt ==
    (ext.done /\ ext.salt.nil) =>
        ext.prk = Extract(ext.hash, ext.secret, Bytes(Zeros(Size(ext.hash))))

\* Extract has been called with a nil salt and a secret, for a real hash.
C10_Witness ==
    /\ ext.done /\ ext.salt.nil
    /\ Size(ext.hash) >= 1
    /\ ext.secret # <<>>
    /\ Len(ext.prk) = Size(ext.hash)

\* What caller i got: the count, the error and the bytes in its buffer.
Got(i) == [ret |-> rd[i].ret, err |-> rd[i].err, p |-> rd[i].p]

\* What a Read of n bytes returns once e bytes of the stream have been
\* returned (C2, C3, C5, C6), for a buffer that held fill bytes.
Due(e, n, fill) ==
    IF e + n > LimitBytes
    THEN [ret |-> 0, err |-> TRUE, p |-> Buffer(n, fill)]
    ELSE [ret |-> n, err |-> FALSE, p |-> SubSeq(OKM, e + 1, e + n)]

\* The two calls ended as if the call of i had run wholly before the call of
\* the other: the bytes due to each, and the hkdf that the two Reads, run one
\* after the other from the start, leave.
AsIfFirst(i) ==
    \E fill \in Fills :
      LET j  == Other(i)
          e0 == Len(emitted)
          a  == Due(e0, rd[i].need, fill)
          b  == Due(e0 + a.ret, rd[j].need, fill)
      IN  /\ Got(i) = a
          /\ Got(j) = b
          /\ f = Read(Read(start, rd[i].p0).f, rd[j].p0).f

BothReturned == \A i \in Readers : rd[i].pc \in {"done", "panic"}

Serializable ==
    /\ \A i \in Readers : rd[i].pc = "done"
    /\ \E i \in Readers : AsIfFirst(i)

\* C9: an Expander is not safe for concurrent use.  Two Reads whose steps do
\* not interleave end as some serial order of the two ends; an end that no
\* serial order produces needs interleaved steps, and (the witness) some
\* interleaving produces one.
C9_OnlyInterleavingBreaksSerial ==
    (BothReturned /\ ~Serializable) => overlap

\* The two callers were handed the same bytes of the stream, which no serial
\* order of their Reads does.
C9_Witness ==
    /\ BothReturned /\ ~Serializable
    /\ \A i \in Readers : rd[i].pc = "done" /\ ~rd[i].err /\ rd[i].need >= 1
    /\ rd[1].p = rd[2].p

\* Two Read calls returned the same: the same count, the same error or none,
\* and on success the same bytes in the whole of the caller's buffer.
SameOutcome(a, b) ==
    /\ a.need = b.need
    /\ a.n = b.n
    /\ a.err = b.err
    /\ ~a.err => a.p = b.p

\* Every Read made so far on the second Expander returned what the Read of
\* the same rank on the first returned.
TwinAgrees == \A i \in 1..Len(twin.res) : SameOutcome(twin.log[i], twin.res[i])

\* C11: two Expanders built from the same hash, PRK and info (or, through
\* New, the same hash, secret, salt and info) and read for the same lengths
\* return the same bytes and the same success or failure at every Read,
\* whatever their buffers held and however their Reads alternate.
C11_Determinism == (twin.built /\ twin.via = "same") => TwinAgrees

\* Both were built by New, both returned the whole stream in one Read and
\* both then failed a Read.
C11_Witness ==
    /\ twin.built /\ twin.via = "same" /\ how.op = "New"
    /\ Size(how.hash) >= 2
    /\ Len(twin.res) = 2
    /\ ~twin.res[1].err /\ twin.res[1].need = LimitBytes
    /\ twin.res[2].err

\* C12: the Expander returned by New(hash, secret, salt, info) starts in
\* the state of the Expander returned by Expand(hash, Extract(hash, secret,
\* salt), info), and the Reads of the two return the same.
C12_NewIsExpandOfExtract ==
    (twin.built /\ twin.via = "composed") =>
        /\ twin.first = start
        /\ TwinAgrees

\* The salt was absent, and both Expanders have been read twice, the second
\* Read served from the pending buffer and a new block.
C12_Witness ==
    /\ twin.built /\ twin.via = "composed"
    /\ how.salt.nil /\ Size(how.hash) >= 2
    /\ Len(twin.res) = 2
    /\ twin.res[1].need = 1 /\ ~twin.res[1].err
    /\ twin.res[2].need = 2 /\ ~twin.res[2].err

\* C13 as stated: in every reachable state the counter lies in 1..255; it
\* starts at 1, goes up by exactly 1 with every block generated and never
\* takes the value 0.
C13_CounterIn1To255 ==
    /\ f.counter \in 1..MaxBlocks
    /\ f.counter = Len(gen) + 1

\* C13, amended: the counter byte is 1 plus the number of blocks generated,
\* modulo 256: it starts at 1, goes up by exactly 1 with every block, lies
\* in 1..255 while fewer than 255 blocks have been generated and is 0 once
\* the 255th has been; no block is generated after that.
C13_CounterIsBlocksPlusOneMod256 ==
    /\ Len(gen) <= MaxBlocks
    /\ f.counter = (Len(gen) + 1) % ByteMod
    /\ Len(gen) < MaxBlocks => f.counter \in 1..MaxBlocks
    /\ Len(gen) = MaxBlocks => f.counter = 0

\* The 255th block has been generated, the counter has wrapped to 0, and a
\* Read has since failed.
C13_Witness ==
    /\ Size(how.hash) >= 1
    /\ Len(gen) = MaxBlocks /\ f.counter = 0
    /\ last.op = "Read" /\ last.err /\ last.pre.counter = 0

\* The last byte written to the HMAC for the latest block.
LastByteFed == f.expander.msg[Len(f.expander.msg)]

\* C14: over any sequence of Reads the k-th block generated is computed
\* with the counter byte k, a value in 1..255 and never 0, so that no
\* counter byte is used for two blocks; the byte is the last one written
\* to the HMAC for the block.
C14_KthBlockFedByteK ==
    /\ \A k \in 1..Len(gen) : gen[k] = k /\ gen[k] \in 1..MaxBlocks
    /\ Len(gen) > 0 => LastByteFed = Len(gen)

\* The 255th block has been generated, by a Read that generated no other.
C14_Witness ==
    /\ Len(gen) = MaxBlocks
    /\ last.op = "Read" /\ ~last.err
    /\ last.fed = <<MaxBlocks>>
    /\ LastByteFed = MaxBlocks

\* C15: in every reachable state the value Read computes at line 49, with
\* the counter a byte and 255 - counter + 1 taken modulo 256, is 255 * hash
\* size less the bytes already returned; once the 255th block has been
\* generated the counter term is 0 and the value is the pending bytes alone.
C15_RemainsIsLimitLessEmitted ==
    /\ Remains(f) = LimitBytes - Len(emitted)
    /\ Len(gen) = MaxBlocks => Remains(f) = SliceLen(f.buf)

\* The 255th block has been generated and one byte of it is pending.
C15_Witness ==
    /\ Len(gen) = MaxBlocks /\ f.counter = 0
    /\ SliceLen(f.buf) = 1
    /\ Remains(f) = 1
    /\ Len(emitted) = LimitBytes - 1

\* The bytes of f.prev and of f.buf.
PrevBytes == SliceOf(f.mem, f.prev)

BufBytes == SliceOf(f.mem, f.buf)

\* The pending bytes are the end of the latest block generated, and the
\* bytes of the stream that come next after those returned.
PendingIsUnreturnedTail ==
    /\ BufBytes = SubSeq(PrevBytes, Len(PrevBytes) - Len(BufBytes) + 1,
                         Len(PrevBytes))
    /\ Len(gen) > 0 =>
          PrevBytes = SubSeq(OKM, (Len(gen) - 1) * f.size + 1, Len(gen) * f.size)
    /\ BufBytes = SubSeq(OKM, Len(emitted) + 1, Len(emitted) + Len(BufBytes))

\* C16 as stated: between Reads the pending buffer holds between 0 and
\* hash size - 1 bytes, the not yet returned end of the latest block.
C16_PendingBelowSize ==
    /\ SliceLen(f.buf) \in 0..(f.size - 1)
    /\ PendingIsUnreturnedTail

\* C16, amended: between Reads the pending buffer holds at most hash size
\* - 1 bytes when the hash size is 1 or more and no byte when it is 0, and
\* those bytes are the not yet returned end of the latest block.
C16_PendingBelowSizeOrEmpty ==
    /\ f.size >= 1 => SliceLen(f.buf) \in 0..(f.size - 1)
    /\ f.size = 0 => SliceLen(f.buf) = 0
    /\ PendingIsUnreturnedTail

\* After several blocks, size - 1 bytes of the latest are pending.
C16_Witness ==
    /\ f.size >= 2
    /\ Len(gen) >= 2
    /\ SliceLen(f.buf) = f.size - 1
    /\ last.op = "Read" /\ ~last.err /\ Len(last.fed) >= 1

\* The hkdf struct g less what the claim lets Read change: the counter, the
\* previous block and the pending buffer (their windows and the array they
\* show), and the bytes written to the HMAC since its Reset.  What is left
\* is the hash, the keyed pads of the HMAC, the size and the info.
Fixed(g) ==
    [g EXCEPT !.counter = 1, !.mem = <<>>, !.prev = NilSlice, !.buf = NilSlice,
              !.expander = HmacReset(g.expander)]

\* C17: no Read, successful or failed, changes the info, the hash size or
\* the HMAC key of the Expander: they stay as Expand set them; Read changes
\* the counter, the previous block and the pending buffer alone.
C17_ReadKeepsInfoSizeKey ==
    /\ Fixed(f) = Expand(how.hash, how.prk, how.info)
    /\ f.info = how.info
    /\ f.size = Size(how.hash)
    /\ f.expander.ipad = HmacNew(how.hash, how.prk).ipad
    /\ f.expander.opad = HmacNew(how.hash, how.prk).opad
    /\ last.op = "Read" => Fixed(last.pre) = Fixed(f)

\* Reads have generated blocks with a non-empty info, and a Read has then
\* failed.
C17_Witness ==
    /\ f.info # <<>> /\ f.size >= 1
    /\ Len(gen) >= 2
    /\ f.counter # 1 /\ f.expander.msg # <<>>
    /\ last.op = "Read" /\ last.err

\* The loop of the call under way has run at most ceil(need / size) times,
\* and not at all for a hash of size 0.
IterationsWithinCeil ==
    IF f.size = 0
    THEN rd[1].iters = 0
    ELSE (rd[1].iters - 1) * f.size < rd[1].need

\* C18: every Read call returns; its loop runs at most ceil(n / hash size)
\* times for a request of n bytes, and an Expander generates at most 255
\* blocks in all, for every hash size, 0 included.
C18_ReadTerminates ==
    /\ [](Len(gen) <= MaxBlocks)
    /\ []IterationsWithinCeil
    /\ (rd[1].pc = "check") ~> (rd[1].pc = "done")

\* A Read of the whole stream has returned after 255 turns of its loop.
C18_Witness ==
    /\ f.size >= 1
    /\ rd[1].pc = "done" /\ ~rd[1].err
    /\ rd[1].need = MaxBlocks * f.size
    /\ rd[1].iters = MaxBlocks
    /\ Len(gen) = MaxBlocks

\* For a hash of size 0 a Read of one byte has returned, with the error.
C18_WitnessSizeZero ==
    /\ f.size = 0
    /\ rd[1].pc = "done" /\ rd[1].err /\ rd[1].need = 1

\* The bytes the last Read needed beyond those pending when it was called.
Lacking == last.need - SliceLen(last.pre.buf)

\* The last Read generated no block if the pending bytes sufficed, and
\* otherwise as many blocks as the bytes lacking take and not one more.
GeneratedOnlyAsNeeded ==
    (last.op = "Read" /\ ~last.err) =>
        IF Lacking <= 0
        THEN last.fed = <<>>
        ELSE /\ (Len(last.fed) - 1) * f.size < Lacking
             /\ Lacking <= Len(last.fed) * f.size

\* C19: a block is generated only when the pending bytes are used up and
\* bytes are still needed, so that between Reads the bytes returned and the
\* bytes pending add up to the blocks generated times the hash size; and
\* the bytes returned followed by the bytes pending are the blocks
\* generated, in order, none overwritten or dropped, though the pending
\* buffer shares the array of the previous block.
C19_LazyAndLossless ==
    /\ GeneratedOnlyAsNeeded
    /\ Len(emitted) + SliceLen(f.buf) = Len(gen) * f.size
    /\ emitted \o BufBytes = SubSeq(OKM, 1, Len(gen) * f.size)
    /\ f.buf.hi = f.prev.hi

\* After several blocks, a Read has been served from the pending bytes
\* alone, with no block generated.
C19_Witness ==
    /\ Len(gen) >= 2
    /\ last.op = "Read" /\ ~last.err /\ last.need >= 1
    /\ SliceLen(last.pre.buf) >= 1
    /\ last.fed = <<>>

=============================================================================
